---- MODULE Spec2Model ----
(***************************************************************************)
(* A model of acker (src/main.rs): a one-shot command that reads one mail  *)
(* from standard input and composes a quoted reply carrying Acked-by /     *)
(* Reviewed-by / Tested-by trailers, then prints it (dry-run) or hands it  *)
(* to a sendmail-like transport.                                           *)
(*                                                                         *)
(* Text is a sequence of one-character strings; Option<T> is a sequence of *)
(* length 0 (None) or 1 (Some).  A panic (unwrap, expect, todo!) ends the  *)
(* run in pc = "panicked".                                                 *)
(***************************************************************************)
EXTENDS Naturals, Sequences, FiniteSets

VARIABLES args, cfg, msg, pc, original_author, reply_text, quoted, user,
          builder, eml, transport, stdout, delivered, panic

vars == <<args, cfg, msg, pc, original_author, reply_text, quoted, user,
          builder, eml, transport, stdout, delivered, panic>>

(***************************************************************************)
(* Bounds of the model.                                                    *)
(***************************************************************************)
MaxBodyLines == 6
MaxTo == 2
MaxCc == 1
MaxFaults == 1

(***************************************************************************)
(* Option and text helpers.                                                *)
(***************************************************************************)
None == <<>>
Some(x) == <<x>>
IsSome(o) == Len(o) = 1
Unwrap(o) == o[1]

Min(a, b) == IF a <= b THEN a ELSE b

LF == "\n"
CR == "\r"

SeqsUpTo(S, n) == UNION {[1..k -> S] : k \in 0..n}

StartsWith(s, p) == Len(s) >= Len(p) /\ SubSeq(s, 1, Len(p)) = p

\* const MAX_LINES: usize = 5;
MAX_LINES == 5

\* The byte value of the characters that occur in names and addresses.
Byte(c) ==
    CASE c = " " -> 32
      [] c = "@" -> 64
      [] c = "A" -> 65
      [] c = "B" -> 66
      [] c = "U" -> 85
      [] c = "V" -> 86
      [] c = "a" -> 97
      [] c = "b" -> 98
      [] c = "u" -> 117
      [] c = "v" -> 118
      [] c = "x" -> 120

\* str::lines(): split at "\n", a "\r" right before the "\n" belongs to the
\* terminator; a final terminator yields no extra empty line.
StripCR(l) == IF l # <<>> /\ l[Len(l)] = CR THEN SubSeq(l, 1, Len(l) - 1) ELSE l

RECURSIVE LinesFrom(_, _)
LinesFrom(t, cur) ==
    IF t = <<>> THEN (IF cur = <<>> THEN <<>> ELSE <<cur>>)
    ELSE IF Head(t) = LF THEN <<StripCR(cur)>> \o LinesFrom(Tail(t), <<>>)
    ELSE LinesFrom(Tail(t), Append(cur, Head(t)))

Lines(t) == LinesFrom(t, <<>>)

(***************************************************************************)
(* Identities.                                                             *)
(***************************************************************************)
\* Address::from_str: user@domain with both parts non-empty, a single "@"
\* and no space.
IsValidAddress(s) ==
    /\ s # <<>>
    /\ Cardinality({i \in 1..Len(s) : s[i] = "@"}) = 1
    /\ s[1] # "@"
    /\ s[Len(s)] # "@"
    /\ \A i \in 1..Len(s) : s[i] # " "

Mailbox(name, email) == [name |-> name, email |-> email]

\* A panic is recorded as the source line that panics; 0 is "no panic".
FirstPanic(ps) ==
    IF \A i \in 1..Len(ps) : ps[i] = 0 THEN 0
    ELSE ps[CHOOSE i \in 1..Len(ps) :
                /\ ps[i] # 0
                /\ \A j \in 1..(i - 1) : ps[j] = 0]

\* mailbox_from_addr: the address must be present (unwrap, line 88) and
\* valid (Address::from_str(..).unwrap(), line 87).
mailbox_from_addr_panic(a) ==
    IF ~IsSome(a.address) THEN 88
    ELSE IF ~IsValidAddress(Unwrap(a.address)) THEN 87
    ELSE 0

mailbox_from_addr(a) == Mailbox(a.name, Unwrap(a.address))

mailbox_from_address_panic(list) ==
    FirstPanic([i \in 1..Len(list) |-> mailbox_from_addr_panic(list[i])])

mailbox_from_address(list) == [i \in 1..Len(list) |-> mailbox_from_addr(list[i])]

\* get_mail_from: msg.from().unwrap(), then remove(0) of the converted list.
get_mail_from_panic(m) ==
    IF ~IsSome(m.from) THEN 103
    ELSE IF mailbox_from_address_panic(Unwrap(m.from)) # 0
         THEN mailbox_from_address_panic(Unwrap(m.from))
    ELSE IF Unwrap(m.from) = <<>> THEN 103
    ELSE 0

get_mail_from(m) == mailbox_from_address(Unwrap(m.from))[1]

(***************************************************************************)
(* get_base_reply: the "On ... wrote:" header and the quoted lines.        *)
(***************************************************************************)
SIG_CUT == <<"-", "-", "-">>
QUOTE_PREFIX == <<">", " ">>
QUOTE_EMPTY == <<">", " ", LF>>
ELLIPSIS == <<">", " ", "[", " ", ".", ".", ".", " ", "]", LF>>

\* AtLimit with > for >=: one more line would be quoted.
AtLimitOffByOne(index) == index > MAX_LINES

\* if index >= MAX_LINES
AtLimit(index) == index >= MAX_LINES

\* IsSigCut without the comparison: the cut would be ignored.
IsSigCutNever(line) == FALSE

\* if line == "---"
IsSigCut(line) == line = SIG_CUT

\* The for loop over body_text.lines().enumerate(), from 0-based index on.
\* acc.body is reply_body; acc.quoted records the (1-based) positions of the
\* lines pushed by the last statement of the loop body.
RECURSIVE QuoteLoop(_, _, _)
QuoteLoop(ls, index, acc) ==
    IF index >= Len(ls) THEN acc
    ELSE IF AtLimit(index)
         THEN [acc EXCEPT !.body = @ \o QUOTE_EMPTY \o ELLIPSIS]
    ELSE IF IsSigCut(ls[index + 1]) THEN acc
    ELSE QuoteLoop(ls, index + 1,
                   [body   |-> acc.body \o QUOTE_PREFIX \o ls[index + 1] \o <<LF>>,
                    quoted |-> Append(acc.quoted, index + 1)])

get_base_reply_panic(m) ==
    IF get_mail_from_panic(m) # 0 THEN get_mail_from_panic(m)
    ELSE IF ~IsSome(m.date) THEN 132
    ELSE IF ~IsSome(m.body) THEN 134
    ELSE IF Unwrap(m.body).kind # "Text" THEN 136
    ELSE 0

\* author.name.unwrap_or(author.email.to_string())
AuthorName(author) == IF IsSome(author.name) THEN Unwrap(author.name) ELSE author.email

\* format!("On {}, {} wrote:\n", date.to_rfc822(), name): m.date holds the
\* date as its RFC 822 text.
ReplyHeader(m) ==
    <<"O", "n", " ">> \o Unwrap(m.date) \o <<",", " ">> \o AuthorName(get_mail_from(m))
        \o <<" ", "w", "r", "o", "t", "e", ":", LF>>

get_base_reply(m) ==
    QuoteLoop(Lines(Unwrap(m.body).text), 0, [body |-> ReplyHeader(m), quoted |-> <<>>])

(***************************************************************************)
(* The operator's identity, from the Git configuration.                    *)
(***************************************************************************)
\* get_user_name: std::str::from_utf8(..).unwrap() of user.name, if set.
get_user_name_panic(c) ==
    IF IsSome(c.name) /\ ~Unwrap(c.name).utf8 THEN 37 ELSE 0

get_user_name(c) == IF IsSome(c.name) THEN Some(Unwrap(c.name).s) ELSE None

\* get_user_addr_panic without Address::from_str: a malformed address would pass.
get_user_addr_panic_unvalidated(c) ==
    IF IsSome(c.email) /\ ~Unwrap(c.email).utf8 THEN 42 ELSE 0

\* get_user_addr: from_utf8(..).unwrap() and Address::from_str(..).unwrap()
\* of user.email, if set.
get_user_addr_panic(c) ==
    IF ~IsSome(c.email) THEN 0
    ELSE IF ~Unwrap(c.email).utf8 THEN 42
    ELSE IF ~IsValidAddress(Unwrap(c.email).s) THEN 42
    ELSE 0

get_user_addr(c) == IF IsSome(c.email) THEN Some(Unwrap(c.email).s) ELSE None

\* get_user_mail: the name is optional, get_user_addr(cfg).unwrap() is not.
get_user_mail_panic(c) ==
    IF get_user_name_panic(c) # 0 THEN get_user_name_panic(c)
    ELSE IF get_user_addr_panic(c) # 0 THEN get_user_addr_panic(c)
    ELSE IF ~IsSome(get_user_addr(c)) THEN 47
    ELSE 0

get_user_mail(c) == Mailbox(get_user_name(c), Unwrap(get_user_addr(c)))

(***************************************************************************)
(* The order and the equality of Mailbox: both derived, field by field in  *)
(* declaration order (name: Option<String>, then email: Address), strings  *)
(* compared byte by byte.                                                  *)
(***************************************************************************)
RECURSIVE StrCmp(_, _)
StrCmp(a, b) ==
    IF a = <<>> THEN (IF b = <<>> THEN "Equal" ELSE "Less")
    ELSE IF b = <<>> THEN "Greater"
    ELSE IF Byte(Head(a)) < Byte(Head(b)) THEN "Less"
    ELSE IF Byte(Head(a)) > Byte(Head(b)) THEN "Greater"
    ELSE StrCmp(Tail(a), Tail(b))

\* Option<String>: None is less than every Some.
OptionCmp(a, b) ==
    IF ~IsSome(a) THEN (IF ~IsSome(b) THEN "Equal" ELSE "Less")
    ELSE IF ~IsSome(b) THEN "Greater"
    ELSE StrCmp(Unwrap(a), Unwrap(b))

MailboxCmp(a, b) ==
    IF OptionCmp(a.name, b.name) # "Equal" THEN OptionCmp(a.name, b.name)
    ELSE StrCmp(a.email, b.email)

MailboxEq(a, b) == a.name = b.name /\ a.email = b.email

\* Vec::sort(): a stable sort by MailboxCmp.
RECURSIVE InsertSorted(_, _)
InsertSorted(s, x) ==
    IF s = <<>> THEN <<x>>
    ELSE IF MailboxCmp(x, Head(s)) = "Less" THEN <<x>> \o s
    ELSE <<Head(s)>> \o InsertSorted(Tail(s), x)

RECURSIVE SortFrom(_, _)
SortFrom(s, acc) ==
    IF s = <<>> THEN acc ELSE SortFrom(Tail(s), InsertSorted(acc, Head(s)))

\* Sort without the sort: the arrival order would be kept.
SortSkipped(s) == s

Sort(s) == SortFrom(s, <<>>)

\* Vec::dedup(): drops every element equal to the one kept before it.
RECURSIVE Dedup(_)
Dedup(s) ==
    IF Len(s) <= 1 THEN s
    ELSE IF MailboxEq(s[1], s[2]) THEN Dedup(Tail(s))
    ELSE <<s[1]>> \o Dedup(Tail(s))

RECURSIVE Filter(_, _)
Filter(s, author) ==
    IF s = <<>> THEN <<>>
    ELSE IF ~MailboxEq(Head(s), author) THEN <<Head(s)>> \o Filter(Tail(s), author)
    ELSE Filter(Tail(s), author)

\* msg.to() / msg.cc(): the list, or nothing when the header is absent.
OptList(o) == IF IsSome(o) THEN Unwrap(o) ELSE <<>>

get_mail_cc_list_panic(c, m) ==
    FirstPanic(<<get_user_mail_panic(c),
                 get_mail_from_panic(m),
                 mailbox_from_address_panic(OptList(m.to)),
                 mailbox_from_address_panic(OptList(m.cc))>>)

get_mail_cc_list(c, m) ==
    Filter(Dedup(Sort(<<get_user_mail(c)>>
                        \o mailbox_from_address(OptList(m.to))
                        \o mailbox_from_address(OptList(m.cc)))),
           get_mail_from(m))

(***************************************************************************)
(* get_mail_transport.  What the environment decides is part of the        *)
(* configuration value: sendmailcmd carries the result of interpolating    *)
(* it (None when Path::interpolate fails), smtpserver whether its bytes    *)
(* are UTF-8 and whether a file of that name exists.                       *)
(***************************************************************************)
SENDMAIL == <<"s", "e", "n", "d", "m", "a", "i", "l">>

get_mail_transport_panic(c) ==
    IF IsSome(c.sendmailcmd)
    THEN (IF ~IsSome(Unwrap(c.sendmailcmd).interpolated) THEN 58 ELSE 0)
    ELSE IF IsSome(c.smtpserver)
    THEN (IF ~Unwrap(c.smtpserver).utf8 THEN 66
          ELSE IF ~Unwrap(c.smtpserver).exists THEN 73
          ELSE 0)
    ELSE 0

\* get_mail_transport with its first two tests exchanged.
RelayFirst(c) ==
    IF IsSome(c.smtpserver) THEN [command |-> Unwrap(c.smtpserver).s]
    ELSE IF IsSome(c.sendmailcmd)
    THEN [command |-> Unwrap(Unwrap(c.sendmailcmd).interpolated)]
    ELSE [command |-> SENDMAIL]

get_mail_transport(c) ==
    IF IsSome(c.sendmailcmd)
    THEN [command |-> Unwrap(Unwrap(c.sendmailcmd).interpolated)]
    ELSE IF IsSome(c.smtpserver) THEN [command |-> Unwrap(c.smtpserver).s]
    ELSE [command |-> SENDMAIL]

(***************************************************************************)
(* main: the trailers and the signature.                                   *)
(***************************************************************************)
\* Display of a Mailbox: "name <address>", or the bare address.
Display(u) ==
    IF IsSome(u.name) THEN Unwrap(u.name) \o <<" ", "<">> \o u.email \o <<">">>
    ELSE u.email

ACKED_BY == <<"A", "c", "k", "e", "d", "-", "b", "y", ":", " ">>
REVIEWED_BY == <<"R", "e", "v", "i", "e", "w", "e", "d", "-", "b", "y", ":", " ">>
TESTED_BY == <<"T", "e", "s", "t", "e", "d", "-", "b", "y", ":", " ">>
THANKS == <<"T", "h", "a", "n", "k", "s", "!">>

\* n.split(' ').next().unwrap(): the text before the first space.
RECURSIVE FirstToken(_)
FirstToken(n) ==
    IF n = <<>> \/ Head(n) = " " THEN <<>> ELSE <<Head(n)>> \o FirstToken(Tail(n))

\* user.name.as_ref().map_or(user.email.as_ref(), ..)
Signature(u) == IF IsSome(u.name) THEN FirstToken(Unwrap(u.name)) ELSE u.email

\* Trailers with its first two pushes exchanged.
TrailersSwapped(a, u) ==
    (IF a.reviewed THEN REVIEWED_BY \o Display(u) \o <<LF>> ELSE <<>>)
        \o (IF a.acked THEN ACKED_BY \o Display(u) \o <<LF>> ELSE <<>>)
        \o (IF a.tested THEN TESTED_BY \o Display(u) \o <<LF>> ELSE <<>>)

\* The three "if args.<flag>" pushes, lines 181-191.
Trailers(a, u) ==
    (IF a.acked THEN ACKED_BY \o Display(u) \o <<LF>> ELSE <<>>)
        \o (IF a.reviewed THEN REVIEWED_BY \o Display(u) \o <<LF>> ELSE <<>>)
        \o (IF a.tested THEN TESTED_BY \o Display(u) \o <<LF>> ELSE <<>>)

\* "\nThanks!\n{}\n"
Closing(u) == <<LF>> \o THANKS \o <<LF>> \o Signature(u) \o <<LF>>

(***************************************************************************)
(* main, step by step.                                                     *)
(***************************************************************************)
EmptyBuilder ==
    [from |-> None, to |-> None, subject |-> None, in_reply_to |-> None,
     references |-> None, cc |-> <<>>]

\* get_base_reply(&msg) followed by reply_text.push('\n')
BaseReplyText(m) == get_base_reply(m).body \o <<LF>>

\* Lines 181-198: what main appends once the operator's identity is known.
TrailersAndClosing(a, u) == Trailers(a, u) \o Closing(u)

\* Lines 200-207: the builder before the Cc entries are added.
Headers(u, author, m) ==
    [from        |-> u,
     to          |-> author,
     subject     |-> Some(<<"R", "e", ":", " ">> \o Unwrap(m.subject)),
     in_reply_to |-> Some(<<"<">> \o Unwrap(m.message_id) \o <<">">>),
     references  |-> Some(<<"<">> \o Unwrap(m.message_id) \o <<">">>),
     cc          |-> <<>>]

Panic(line) ==
    /\ pc' = "panicked"
    /\ panic' = line
    /\ UNCHANGED <<args, cfg, msg, original_author, reply_text, quoted, user,
                   builder, eml, transport, stdout, delivered>>

\* GitFile::from_globals().expect(..)
LoadConfig ==
    /\ pc = "load_config"
    /\ IF ~cfg.loaded THEN Panic(165)
       ELSE /\ pc' = "read_stdin"
            /\ UNCHANGED <<args, cfg, msg, original_author, reply_text, quoted,
                           user, builder, eml, transport, stdout, delivered, panic>>

\* stdin.read_to_end(..); MessageParser::default().parse(&buffer).unwrap()
ReadMessage ==
    /\ pc = "read_stdin"
    /\ IF ~msg.parsed THEN Panic(172)
       ELSE /\ pc' = "get_author"
            /\ UNCHANGED <<args, cfg, msg, original_author, reply_text, quoted,
                           user, builder, eml, transport, stdout, delivered, panic>>

\* let original_author = get_mail_from(&msg);
GetOriginalAuthor ==
    /\ pc = "get_author"
    /\ IF get_mail_from_panic(msg) # 0 THEN Panic(get_mail_from_panic(msg))
       ELSE /\ original_author' = Some(get_mail_from(msg))
            /\ pc' = "base_reply"
            /\ UNCHANGED <<args, cfg, msg, reply_text, quoted, user, builder,
                           eml, transport, stdout, delivered, panic>>

\* let mut reply_text = get_base_reply(&msg); reply_text.push('\n');
BaseReply ==
    /\ pc = "base_reply"
    /\ IF get_base_reply_panic(msg) # 0 THEN Panic(get_base_reply_panic(msg))
       ELSE /\ reply_text' = BaseReplyText(msg)
            /\ quoted' = get_base_reply(msg).quoted
            /\ pc' = "trailers"
            /\ UNCHANGED <<args, cfg, msg, original_author, user, builder, eml,
                           transport, stdout, delivered, panic>>

\* let user = get_user_mail(&cfg); the trailers; "\nThanks!\n{}\n"
AddTrailers ==
    /\ pc = "trailers"
    /\ IF get_user_mail_panic(cfg) # 0 THEN Panic(get_user_mail_panic(cfg))
       ELSE /\ user' = Some(get_user_mail(cfg))
            /\ reply_text' = reply_text \o TrailersAndClosing(args, get_user_mail(cfg))
            /\ pc' = "headers"
            /\ UNCHANGED <<args, cfg, msg, original_author, quoted, builder, eml,
                           transport, stdout, delivered, panic>>

\* msg_id and Message::builder(): From, To, Subject, In-Reply-To, References.
SetHeaders ==
    /\ pc = "headers"
    /\ IF ~IsSome(msg.message_id) THEN Panic(200)
       ELSE IF ~IsSome(msg.subject) THEN Panic(205)
       ELSE /\ builder' = Headers(user, original_author, msg)
            /\ pc' = "cc"
            /\ UNCHANGED <<args, cfg, msg, original_author, reply_text, quoted,
                           user, eml, transport, stdout, delivered, panic>>

\* for user in get_mail_cc_list(&cfg, &msg) { builder = builder.cc(user); }
AddCc ==
    /\ pc = "cc"
    /\ IF get_mail_cc_list_panic(cfg, msg) # 0
       THEN Panic(get_mail_cc_list_panic(cfg, msg))
       ELSE /\ builder' = [builder EXCEPT !.cc = @ \o get_mail_cc_list(cfg, msg)]
            /\ pc' = "build"
            /\ UNCHANGED <<args, cfg, msg, original_author, reply_text, quoted,
                           user, eml, transport, stdout, delivered, panic>>

\* let eml = builder.body(reply_text).unwrap(): the build needs a From and a
\* recipient, which SetHeaders has set.
BuildMessage ==
    /\ pc = "build"
    /\ IF ~IsSome(builder.from) \/ ~IsSome(builder.to) THEN Panic(213)
       ELSE /\ eml' = Some([headers |-> builder, body |-> reply_text])
            /\ pc' = "terminal"
            /\ UNCHANGED <<args, cfg, msg, original_author, reply_text, quoted,
                           user, builder, transport, stdout, delivered, panic>>

\* IsDry without the flag: every run would send.
IsDryIgnored(a) == FALSE

\* if args.dry
IsDry(a) == a.dry

\* if args.dry { println!(..eml.formatted()..) }: the whole message is
\* written to standard output (its wire format is not modelled).
PrintMessage ==
    /\ pc = "terminal"
    /\ IsDry(args)
    /\ stdout' = Append(stdout, Unwrap(eml))
    /\ pc' = "done"
    /\ UNCHANGED <<args, cfg, msg, original_author, reply_text, quoted, user,
                   builder, eml, transport, delivered, panic>>

\* else: get_mail_transport(&cfg)
ResolveTransport ==
    /\ pc = "terminal"
    /\ ~IsDry(args)
    /\ IF get_mail_transport_panic(cfg) # 0 THEN Panic(get_mail_transport_panic(cfg))
       ELSE /\ transport' = Some(get_mail_transport(cfg))
            /\ pc' = "send"
            /\ UNCHANGED <<args, cfg, msg, original_author, reply_text, quoted,
                           user, builder, eml, stdout, delivered, panic>>

\* .send(&eml).unwrap(): the command runs with the message; its failure is
\* the environment's.
SendMessage ==
    /\ pc = "send"
    /\ delivered' = Append(delivered, [transport |-> Unwrap(transport),
                                       message   |-> Unwrap(eml)])
    /\ \E ok \in BOOLEAN :
          IF ok THEN pc' = "done" /\ panic' = panic
          ELSE pc' = "panicked" /\ panic' = 218
    /\ UNCHANGED <<args, cfg, msg, original_author, reply_text, quoted, user,
                   builder, eml, transport, stdout>>

Next ==
    \/ LoadConfig
    \/ ReadMessage
    \/ GetOriginalAuthor
    \/ BaseReply
    \/ AddTrailers
    \/ SetHeaders
    \/ AddCc
    \/ BuildMessage
    \/ PrintMessage
    \/ ResolveTransport
    \/ SendMessage

(***************************************************************************)
(* Inputs: the command line, the Git configuration and the parsed mail.    *)
(***************************************************************************)
ArgsSet == [acked : BOOLEAN, dry : BOOLEAN, reviewed : BOOLEAN, tested : BOOLEAN]

Utf8(s) == [utf8 |-> TRUE, s |-> s]
NotUtf8 == [utf8 |-> FALSE, s |-> <<"?">>]

Addr(name, address) == [name |-> name, address |-> address]

A_AX == Addr(Some(<<"A">>), Some(<<"a", "@", "x">>))
N_AX == Addr(None, Some(<<"a", "@", "x">>))
B_BX == Addr(Some(<<"B">>), Some(<<"b", "@", "x">>))
BadSyntax == Addr(Some(<<"B">>), Some(<<"b", "x">>))
NoAddress == Addr(Some(<<"B">>), None)

DATE == <<"D">>
MESSAGE_ID == <<"i", "@", "x">>
SUBJECT == <<"S">>

Text(t) == [kind |-> "Text", text |-> t]
Html == [kind |-> "Html", text |-> <<>>]

\* Two short bodies: one line; a line that looks like a trailer, the
\* signature cut and a line after it.
BodyOne == <<"x", LF>>
BodyCut == ACKED_BY \o <<"b", LF>> \o SIG_CUT \o <<LF, "x", LF>>

NameRegular == {None, Some(Utf8(<<"U", " ", "V">>))}
NameFaulty == {Some(NotUtf8)}
EmailRegular == {Some(Utf8(<<"u", "@", "x">>))}
EmailFaulty == {None, Some(Utf8(<<"u", "x">>)), Some(NotUtf8)}
SendmailCmdSet ==
    {None,
     Some([path |-> <<"/", "m">>, interpolated |-> Some(<<"/", "m">>)]),
     Some([path |-> <<"~", "/", "m">>, interpolated |-> None])}
SmtpServerSet ==
    {None,
     Some([utf8 |-> TRUE, s |-> <<"/", "r">>, exists |-> TRUE]),
     Some([utf8 |-> TRUE, s |-> <<"r">>, exists |-> FALSE]),
     Some([utf8 |-> FALSE, s |-> <<"?">>, exists |-> FALSE]),
     Some([utf8 |-> FALSE, s |-> <<"?">>, exists |-> TRUE])}

CfgAll ==
    [loaded : BOOLEAN,
     name : NameRegular \cup NameFaulty,
     email : EmailRegular \cup EmailFaulty,
     sendmailcmd : SendmailCmdSet,
     smtpserver : SmtpServerSet]

B2N(b) == IF b THEN 1 ELSE 0

CfgFaults(c) ==
    B2N(~c.loaded) + B2N(c.name \in NameFaulty) + B2N(c.email \in EmailFaulty)

FromRegular == {Some(<<A_AX>>)}
FromFaulty == {None, Some(<<>>), Some(<<BadSyntax>>), Some(<<NoAddress>>)}
BodyRegular == {Some(Text(BodyOne)), Some(Text(BodyCut))}
BodyFaulty == {None, Some(Html)}
ToRegular == {None, Some(<<B_BX, N_AX>>)}
ToFaulty == {Some(<<B_BX, BadSyntax>>), Some(<<NoAddress>>)}
CcRegular == {None}
CcFaulty == {Some(<<BadSyntax>>), Some(<<B_BX, NoAddress>>)}

MsgAll ==
    [parsed : BOOLEAN,
     from : FromRegular \cup FromFaulty,
     to : ToRegular \cup ToFaulty,
     cc : CcRegular \cup CcFaulty,
     date : {None, Some(DATE)},
     message_id : {None, Some(MESSAGE_ID)},
     subject : {None, Some(SUBJECT)},
     body : BodyRegular \cup BodyFaulty]

MsgFaults(m) ==
    B2N(~m.parsed) + B2N(m.from \in FromFaulty) + B2N(m.to \in ToFaulty)
        + B2N(m.cc \in CcFaulty) + B2N(m.date = None) + B2N(m.message_id = None)
        + B2N(m.subject = None) + B2N(m.body \in BodyFaulty)

\* The state when main starts.
Fresh ==
    /\ original_author = None
    /\ reply_text = <<>>
    /\ quoted = <<>>
    /\ user = None
    /\ builder = EmptyBuilder
    /\ eml = None
    /\ transport = None
    /\ stdout = <<>>
    /\ delivered = <<>>
    /\ panic = 0

Init ==
    /\ args \in ArgsSet
    /\ \E kc \in 0..MaxFaults :
          /\ cfg \in {c \in CfgAll : CfgFaults(c) = kc}
          /\ msg \in {m \in MsgAll : MsgFaults(m) <= MaxFaults - kc}
    /\ pc = "load_config"
    /\ Fresh

Spec == Init /\ [][Next]_vars

(***************************************************************************)
(* get_base_reply on its own: main at line 176, for every body of up to    *)
(* MaxBodyLines lines.                                                     *)
(***************************************************************************)
LineSet == {<<>>, <<"x">>, SIG_CUT, <<"-", "-", "-", "-">>}

RECURSIVE JoinLines(_, _, _)
JoinLines(ls, eol, final) ==
    IF ls = <<>> THEN <<>>
    ELSE IF Len(ls) = 1 THEN Head(ls) \o (IF final THEN eol ELSE <<>>)
    ELSE Head(ls) \o eol \o JoinLines(Tail(ls), eol, final)

Bodies ==
    {JoinLines(ls, eol, final) :
        ls \in SeqsUpTo(LineSet, MaxBodyLines), eol \in {<<LF>>, <<CR, LF>>},
        final \in BOOLEAN}

RegularCfg ==
    [loaded |-> TRUE, name |-> Some(Utf8(<<"U", " ", "V">>)),
     email |-> Some(Utf8(<<"u", "@", "x">>)), sendmailcmd |-> None,
     smtpserver |-> None]

RegularMsg ==
    [parsed |-> TRUE, from |-> Some(<<A_AX>>), to |-> None, cc |-> None,
     date |-> Some(DATE), message_id |-> Some(MESSAGE_ID),
     subject |-> Some(SUBJECT), body |-> Some(Text(BodyOne))]

QuoteMsgs ==
    {[RegularMsg EXCEPT !.body = Some(Text(t))] : t \in Bodies}
        \cup {[RegularMsg EXCEPT !.from = Some(<<f>>), !.date = d, !.body = b] :
                f \in {A_AX, N_AX}, d \in {None, Some(DATE)},
                b \in BodyRegular \cup BodyFaulty}

InitQuote ==
    /\ args \in {a \in ArgsSet : ~a.dry /\ ~a.reviewed /\ ~a.tested}
    /\ cfg = RegularCfg
    /\ msg \in QuoteMsgs
    /\ pc = "base_reply"
    /\ original_author = Some(get_mail_from(msg))
    /\ reply_text = <<>>
    /\ quoted = <<>>
    /\ user = None
    /\ builder = EmptyBuilder
    /\ eml = None
    /\ transport = None
    /\ stdout = <<>>
    /\ delivered = <<>>
    /\ panic = 0

NextQuote == BaseReply

SpecQuote == InitQuote /\ [][NextQuote]_vars

(***************************************************************************)
(* get_mail_cc_list on its own: main at line 209, for every To list of up  *)
(* to MaxTo and Cc list of up to MaxCc entries.                            *)
(***************************************************************************)
RcptSet ==
    {N_AX, A_AX, B_BX, BadSyntax,
     Addr(Some(<<"A">>), Some(<<"b", "@", "x">>)),
     Addr(Some(<<"b">>), Some(<<"a", "@", "x">>)),
     Addr(None, Some(<<"A", "@", "x">>))}

AuthorSet == {A_AX, N_AX, Addr(Some(<<"b">>), Some(<<"a", "@", "x">>))}

SelfCfgs ==
    {RegularCfg,
     [RegularCfg EXCEPT !.name = Some(Utf8(<<"A">>)),
                        !.email = Some(Utf8(<<"a", "@", "x">>))]}

OptLists(n) == {None} \cup {Some(l) : l \in SeqsUpTo(RcptSet, n)}

CcMsgs ==
    {[RegularMsg EXCEPT !.from = Some(<<f>>), !.to = t, !.cc = c] :
        f \in AuthorSet, t \in OptLists(MaxTo), c \in OptLists(MaxCc)}

InitCc ==
    /\ args \in {a \in ArgsSet : a.acked /\ ~a.dry /\ ~a.reviewed /\ ~a.tested}
    /\ cfg \in SelfCfgs
    /\ msg \in CcMsgs
    /\ pc = "cc"
    /\ original_author = Some(get_mail_from(msg))
    /\ reply_text = BaseReplyText(msg) \o TrailersAndClosing(args, get_user_mail(cfg))
    /\ quoted = get_base_reply(msg).quoted
    /\ user = Some(get_user_mail(cfg))
    /\ builder = Headers(user, original_author, msg)
    /\ eml = None
    /\ transport = None
    /\ stdout = <<>>
    /\ delivered = <<>>
    /\ panic = 0

NextCc == AddCc

SpecCc == InitCc /\ [][NextCc]_vars

(***************************************************************************)
(* Properties of get_base_reply, checked under SpecQuote.                  *)
(***************************************************************************)
\* A text whose lines all end in "\n", as a sequence of lines.
RECURSIVE SplitLF(_, _)
SplitLF(t, cur) ==
    IF t = <<>> THEN (IF cur = <<>> THEN <<>> ELSE <<cur>>)
    ELSE IF Head(t) = LF THEN <<cur>> \o SplitLF(Tail(t), <<>>)
    ELSE SplitLF(Tail(t), Append(cur, Head(t)))

\* The lines of the first text body, as str::lines() yields them.
BodyLines == Lines(Unwrap(msg.body).text)

\* get_base_reply has returned and main has pushed its "\n".
Replied == pc = "trailers"

\* What follows the "On ... wrote:" line, up to the blank line main pushes.
QuotedSection ==
    LET out == SplitLF(reply_text, <<>>) IN SubSeq(out, 2, Len(out) - 1)

QuoteOf(ls, k) == [i \in 1..k |-> <<">", " ">> \o ls[i]]

TruncationMarker == << <<">", " ">>, <<">", " ", "[", " ", ".", ".", ".", " ", "]">> >>

HasCut(ls) == \E i \in 1..Len(ls) : ls[i] = <<"-", "-", "-">>

\* The 1-based position of the first "---" line.
FirstCut(ls) ==
    CHOOSE p \in 1..Len(ls) :
        /\ ls[p] = <<"-", "-", "-">>
        /\ \A i \in 1..(p - 1) : ls[i] # <<"-", "-", "-">>

\* The number of lines before the first "---" line, or before the end.
LinesBeforeCut(ls) == IF HasCut(ls) THEN FirstCut(ls) - 1 ELSE Len(ls)

\* C1: for a body of n lines none of which is "---", the quoted section is
\* the first min(n, 5) lines, in order, each prefixed with "> ", followed by
\* "> " and "> [ ... ]" if and only if n > 5.
C1_QuoteWithoutCut ==
    (Replied /\ ~HasCut(BodyLines)) =>
        LET n == Len(BodyLines) IN
            QuotedSection =
                QuoteOf(BodyLines, Min(n, 5)) \o (IF n > 5 THEN TruncationMarker ELSE <<>>)

\* A body of six lines without "---": five are quoted, then the marker.
C1_Witness ==
    /\ Replied
    /\ ~HasCut(BodyLines)
    /\ Len(BodyLines) = 6
    /\ Len(QuotedSection) = 7

\* C2: with the first "---" line at position p, no line at a position >= p
\* is quoted (the "---" line included), whatever follows it: the quoted
\* section is the quoted lines, all from positions below p, alone or
\* followed by the truncation marker; and when p <= 5 it is exactly the
\* lines 1..p-1.
C2_NeverCrossesCut ==
    (Replied /\ HasCut(BodyLines)) =>
        LET p == FirstCut(BodyLines)
            q == [i \in 1..Len(quoted) |-> <<">", " ">> \o BodyLines[quoted[i]]]
        IN  /\ \A i \in 1..Len(quoted) : quoted[i] < p
            /\ QuotedSection \in {q, q \o TruncationMarker}
            /\ p <= 5 => QuotedSection = QuoteOf(BodyLines, p - 1)

\* "---" is the third of six lines: two lines are quoted, three follow the cut.
C2_Witness ==
    /\ Replied
    /\ HasCut(BodyLines)
    /\ FirstCut(BodyLines) = 3
    /\ Len(BodyLines) = 6
    /\ Len(QuotedSection) = 2

\* C10: the truncation marker is appended only when more than 5 lines
\* precede the first "---" line (or the end of the body); five ordinary lines
\* followed by "---" are quoted without a marker.
C10_MarkerOnlyWhenMoreThanFive ==
    Replied =>
        /\ Len(QuotedSection) > Len(quoted) => LinesBeforeCut(BodyLines) > 5
        /\ (HasCut(BodyLines) /\ FirstCut(BodyLines) = 6) =>
               QuotedSection = QuoteOf(BodyLines, 5)

(***************************************************************************)
(* Properties of get_mail_cc_list, checked under SpecCc.                   *)
(***************************************************************************)
CcReturned == pc = "build"

Author == Unwrap(original_author)

Lower(c) ==
    CASE c = "A" -> "a"
      [] c = "B" -> "b"
      [] c = "U" -> "u"
      [] c = "V" -> "v"
      [] OTHER -> c

LowerStr(s) == [i \in 1..Len(s) |-> Lower(s[i])]

Range(s) == {s[i] : i \in 1..Len(s)}

\* C3: no entry of the returned Cc list has the author's address.
C3_AuthorAddressAbsent ==
    CcReturned => \A i \in 1..Len(builder.cc) : builder.cc[i].email # Author.email

\* C4: no two entries of the returned Cc list have addresses that are equal
\* ignoring case.
C4_NoDuplicateAddress ==
    CcReturned =>
        \A i, j \in 1..Len(builder.cc) :
            i # j => LowerStr(builder.cc[i].email) # LowerStr(builder.cc[j].email)

\* The order the claim names: the address first, then the display name (none
\* before any), both ignoring case.
AddressFirstCmp(a, b) ==
    IF StrCmp(LowerStr(a.email), LowerStr(b.email)) # "Equal"
    THEN StrCmp(LowerStr(a.email), LowerStr(b.email))
    ELSE OptionCmp([i \in 1..Len(a.name) |-> LowerStr(a.name[i])],
                   [i \in 1..Len(b.name) |-> LowerStr(b.name[i])])

Permuted(s) ==
    {[i \in 1..Len(s) |-> s[f[i]]] :
        f \in {g \in [1..Len(s) -> 1..Len(s)] : Range(g) = 1..Len(s)}}

Composed == IsSome(user)

TrailerKinds == <<ACKED_BY, REVIEWED_BY, TESTED_BY>>

IsTrailerLine(l) == \E k \in 1..3 : StartsWith(l, TrailerKinds[k])

FlagSet(k) ==
    CASE k = 1 -> args.acked
      [] k = 2 -> args.reviewed
      [] k = 3 -> args.tested

\* The kinds whose flag is set, in the order Acked-by, Reviewed-by, Tested-by.
ExpectedKinds == SelectSeq(<<1, 2, 3>>, FlagSet)

\* C6: with k of the flags acked, reviewed and tested set, the body holds
\* exactly k trailer lines, after the blank line that follows the quoted
\* section and before the blank line that precedes "Thanks!", in the order
\* Acked-by, Reviewed-by, Tested-by; a kind is there if and only if its flag
\* is set, and no other line is a trailer line.
C6_TrailersFollowFlags ==
    Composed =>
        LET out == SplitLF(reply_text, <<>>)
            blank == CHOOSE i \in 1..Len(out) :
                        out[i] = <<>> /\ \A j \in 1..(i - 1) : out[j] # <<>>
            thanks == Len(out) - 1
            trailers == SubSeq(out, blank + 1, thanks - 2)
        IN  /\ \A i \in 2..(blank - 1) : StartsWith(out[i], <<">", " ">>)
            /\ out[thanks] = <<"T", "h", "a", "n", "k", "s", "!">>
            /\ out[thanks - 1] = <<>>
            /\ thanks - 1 > blank
            /\ Len(trailers) = Len(ExpectedKinds)
            /\ \A i \in 1..Len(trailers) :
                  StartsWith(trailers[i], TrailerKinds[ExpectedKinds[i]])
            /\ \A i \in 1..Len(out) :
                  IsTrailerLine(out[i]) => (blank < i /\ i < thanks - 1)

\* Two of the three flags set, under a quoted line that reads like a trailer.
C6_Witness ==
    /\ Composed
    /\ args.acked /\ ~args.reviewed /\ args.tested
    /\ msg.body = Some(Text(BodyCut))
    /\ Len(SplitLF(reply_text, <<>>)) = 8

\* C7: a run that succeeds has either printed the message and neither
\* resolved nor invoked the transport (dry-run), or passed the message to
\* the transport once and printed nothing; no run prints and sends, and no
\* run sends more than once.
C7_PrintOrSendOnce ==
    /\ Len(delivered) <= 1
    /\ Len(stdout) <= 1
    /\ ~(stdout # <<>> /\ delivered # <<>>)
    /\ pc = "done" =>
          IF args.dry
          THEN stdout = <<Unwrap(eml)>> /\ transport = None /\ delivered = <<>>
          ELSE /\ stdout = <<>>
               /\ IsSome(transport)
               /\ delivered = <<[transport |-> Unwrap(transport), message |-> Unwrap(eml)]>>

\* A run without dry-run that has sent its message and ended.
C7_Witness ==
    /\ pc = "done"
    /\ ~args.dry
    /\ Len(delivered) = 1
    /\ stdout = <<>>

BadAddress(a) == ~IsSome(a.address) \/ ~IsValidAddress(Unwrap(a.address))

\* The fatal conditions of C8: the operator's address missing or malformed;
\* the mail without author, date, message-id, subject or text body; a To,
\* Cc or author address that fails validation.
FatalInput ==
    \/ ~IsSome(cfg.email)
    \/ ~Unwrap(cfg.email).utf8
    \/ ~IsValidAddress(Unwrap(cfg.email).s)
    \/ ~IsSome(msg.from)
    \/ Unwrap(msg.from) = <<>>
    \/ ~IsSome(msg.date)
    \/ ~IsSome(msg.message_id)
    \/ ~IsSome(msg.subject)
    \/ ~IsSome(msg.body)
    \/ Unwrap(msg.body).kind # "Text"
    \/ \E i \in 1..Len(OptList(msg.from)) : BadAddress(OptList(msg.from)[i])
    \/ \E i \in 1..Len(OptList(msg.to)) : BadAddress(OptList(msg.to)[i])
    \/ \E i \in 1..Len(OptList(msg.cc)) : BadAddress(OptList(msg.cc)[i])

\* C8: under a fatal condition the run writes nothing to standard output
\* and never invokes the transport, with dry-run and without; it ends, and
\* ends only, in the error state; and no step runs after an abort.
C8_FatalAbortsBeforeEffects ==
    /\ FatalInput =>
          /\ stdout = <<>>
          /\ delivered = <<>>
          /\ transport = None
          /\ pc # "done"
          /\ ~ENABLED Next => (pc = "panicked" /\ panic # 0)
    /\ pc = "panicked" => ~ENABLED Next

\* The last fatal condition main can meet: a Cc address that fails validation.
C8_Witness ==
    /\ pc = "panicked"
    /\ panic = 87
    /\ msg.cc \in CcFaulty
    /\ msg.to \in ToRegular
    /\ ~args.dry
    /\ IsSome(builder.subject)

\* get_mail_transport has been called: it returned or it panicked.
Resolving ==
    /\ ~args.dry
    /\ \/ pc \in {"send", "done"}
       \/ pc = "panicked" /\ panic \in {58, 66, 73, 218}

UsesCommand(path) == transport = Some([command |-> path])

Aborted(line) ==
    pc = "panicked" /\ panic = line /\ transport = None /\ delivered = <<>>

\* C9 as stated: (a) a configured transport command is the external command,
\* whatever the relay is; (b) else a relay that is an existing path is; (c)
\* else a relay that is not an existing path fails as unsupported (the
\* todo!() of line 73) and nothing is delivered; (d) else the default command.
C9_TransportPrecedence ==
    Resolving =>
        IF IsSome(cfg.sendmailcmd)
        THEN \E p \in {<<"/", "m">>, <<"~", "/", "m">>} : UsesCommand(p)
        ELSE IF IsSome(cfg.smtpserver)
        THEN (IF Unwrap(cfg.smtpserver).exists
              THEN UsesCommand(Unwrap(cfg.smtpserver).s)
              ELSE Aborted(73))
        ELSE UsesCommand(<<"s", "e", "n", "d", "m", "a", "i", "l">>)

\* C9, amended: (a) with a transport command configured the relay is never
\* consulted: the interpolated command is the external command, and the run
\* aborts (line 58) when the interpolation fails; (b) else a relay that is
\* valid UTF-8 and an existing path is the external command; (c) else a
\* relay that is valid UTF-8 and not an existing path fails as unsupported
\* (line 73), one that is not valid UTF-8 aborts the run (line 66), and
\* nothing is delivered; (d) else the default command.
C9_TransportPrecedenceOrAbort ==
    Resolving =>
        IF IsSome(cfg.sendmailcmd)
        THEN (IF IsSome(Unwrap(cfg.sendmailcmd).interpolated)
              THEN UsesCommand(Unwrap(Unwrap(cfg.sendmailcmd).interpolated))
              ELSE Aborted(58))
        ELSE IF IsSome(cfg.smtpserver)
        THEN (IF ~Unwrap(cfg.smtpserver).utf8 THEN Aborted(66)
              ELSE IF Unwrap(cfg.smtpserver).exists
              THEN UsesCommand(Unwrap(cfg.smtpserver).s)
              ELSE Aborted(73))
        ELSE UsesCommand(<<"s", "e", "n", "d", "m", "a", "i", "l">>)

\* Both are configured and usable: the transport command wins over the relay.
C9_Witness ==
    /\ pc = "send"
    /\ IsSome(cfg.sendmailcmd)
    /\ IsSome(cfg.smtpserver)
    /\ Unwrap(cfg.smtpserver).utf8 /\ Unwrap(cfg.smtpserver).exists
    /\ UsesCommand(<<"/", "m">>)

====
